---------------------------- MODULE Spec2Model ----------------------------
(***************************************************************************)
(* URL shortener (shantanu747/URL-Shortener): the shortening engine        *)
(* HandleShortURLRequest, the resolution path handleRedirect ->            *)
(* HandleRedirectRequest, and the urls table they share.                   *)
(*                                                                         *)
(* Strings the code inspects character by character (short keys, host      *)
(* names) are sequences of one-character strings; error texts are          *)
(* sequences of words; a long URL is the record url.Parse yields for it    *)
(* together with its raw text and its length in bytes.                     *)
(***************************************************************************)
EXTENDS Integers, Sequences, FiniteSets, TLC

(***************************************************************************)
(* Bounds of the model.                                                    *)
(***************************************************************************)
NumProcs == 2
MaxCalls == 3
NumDigests == 2

(***************************************************************************)
(* Program constants.                                                      *)
(***************************************************************************)
MaxURLLength == 2048
MaxRetries_Six == 5 + 1
MaxRetries == 5
ClickCountDefault == 0
BaseDomain == "http://shan747.urs/"

Procs == 1..NumProcs

(***************************************************************************)
(* Characters.                                                             *)
(***************************************************************************)
AsciiTable ==
  << " ", "!", "<dquote>", "#", "$", "%", "&", "'", "(", ")", "*", "+", ",", "-", ".", "/",
     "0", "1", "2", "3", "4", "5", "6", "7", "8", "9", ":", ";", "<", "=", ">", "?",
     "@", "A", "B", "C", "D", "E", "F", "G", "H", "I", "J", "K", "L", "M", "N", "O",
     "P", "Q", "R", "S", "T", "U", "V", "W", "X", "Y", "Z", "[", "<backslash>", "]", "^", "_",
     "<backquote>", "a", "b", "c", "d", "e", "f", "g", "h", "i", "j", "k", "l", "m", "n", "o",
     "p", "q", "r", "s", "t", "u", "v", "w", "x", "y", "z", "{", "|", "}", "~" >>

\* The code point of each printable character.
CodePoint ==
  [c \in {AsciiTable[i] : i \in 1..Len(AsciiTable)} |->
     31 + (CHOOSE i \in 1..Len(AsciiTable) : AsciiTable[i] = c)]

Ord(c) == CodePoint[c]

Chr(n) == AsciiTable[n - 31]

RECURSIVE Str(_)
Str(s) == IF s = <<>> THEN "" ELSE Head(s) \o Str(Tail(s))

ToLowerChar(c) == IF Ord(c) >= Ord("A") /\ Ord(c) <= Ord("Z") THEN Chr(Ord(c) + 32) ELSE c

ToLower(s) == [i \in 1..Len(s) |-> ToLowerChar(s[i])]

HasPrefix(s, prefix) ==
  Len(s) >= Len(prefix) /\ SubSeq(s, 1, Len(prefix)) = prefix

Contains(s, substr) ==
  \E i \in 1..(Len(s) - Len(substr) + 1) : SubSeq(s, i, i + Len(substr) - 1) = substr

(***************************************************************************)
(* Errors: nil, or a text (a sequence of words) with the PostgreSQL error  *)
(* code errors.As finds in the chain ("" when the chain holds no           *)
(* *pq.Error) and the text of the innermost error of the chain (root).     *)
(* Errorf with %w puts its words in front and keeps the chain.             *)
(***************************************************************************)
Nil == [nil |-> TRUE, msg |-> <<>>, pqCode |-> "", root |-> <<>>]

NewError(words) == [nil |-> FALSE, msg |-> words, pqCode |-> "", root |-> words]

PqError(code, words) == [nil |-> FALSE, msg |-> words, pqCode |-> code, root |-> words]

Errorf(words, err) ==
  [nil |-> FALSE, msg |-> words \o err.msg, pqCode |-> err.pqCode, root |-> err.root]

ErrNoRows == NewError(<<"sql:", "no", "rows", "in", "result", "set">>)

UniqueViolation ==
  PqError("23505", <<"pq:", "duplicate", "key", "value", "violates", "unique",
                     "constraint", "urls_short_key_key">>)

\* What a statement fails with when the store itself fails.
StoreFailures ==
  { NewError(<<"driver:", "bad", "connection">>),
    PqError("57P01", <<"pq:", "terminating", "connection", "due", "to",
                       "administrator", "command">>) }

(***************************************************************************)
(* Long URLs.  Scheme and Hostname are what url.Parse returns for raw.     *)
(***************************************************************************)
ParsedURL(raw, len, parses, scheme, hostname) ==
  [raw |-> raw, len |-> len, parses |-> parses, Scheme |-> scheme, Hostname |-> hostname]

HostExample == <<"e", "x", "a", "m", "p", "l", "e", ".", "c", "o", "m">>
HostLocalhost == <<"L", "o", "c", "a", "l", "h", "o", "s", "t">>

UrlA == ParsedURL("https://example.com/a", 21, TRUE, "https", HostExample)
UrlB == ParsedURL("http://example.com/b", 20, TRUE, "http", HostExample)
UrlFtp == ParsedURL("ftp://example.com", 17, TRUE, "ftp", HostExample)
UrlLocal == ParsedURL("http://Localhost/admin", 22, TRUE, "http", HostLocalhost)
UrlLong == ParsedURL("https://example.com/<2030 a's>", 2049, TRUE, "https", HostExample)
UrlBad == ParsedURL("http://exa mple.com/", 20, FALSE, "", <<>>)

URLs == {UrlA, UrlB, UrlFtp, UrlLocal, UrlLong, UrlBad}

NoURL == ParsedURL("", 0, TRUE, "", <<>>)

ParseError ==
  NewError(<<"parse", "http://exa mple.com/:", "invalid", "character",
             "in", "host", "name">>)

ValidateLongURL(longURL) ==
  IF longURL.len > MaxURLLength
    THEN NewError(<<"url", "exceeds", "maximum", "length", "of", ToString(MaxURLLength),
                    "characters">>)
  ELSE IF ~longURL.parses
    THEN Errorf(<<"invalid", "url", "format">>, ParseError)
  ELSE IF longURL.Scheme # "http" /\ longURL.Scheme # "https"
    THEN NewError(<<"URL", "must", "use", "http", "or", "https", "scheme">>)
  ELSE LET host == ToLower(longURL.Hostname) IN
    IF \/ host = <<"l", "o", "c", "a", "l", "h", "o", "s", "t">>
       \/ host = <<"1", "2", "7", ".", "0", ".", "0", ".", "1">>
       \/ host = <<"0", ".", "0", ".", "0", ".", "0">>
       \/ host = <<":", ":", "1">>
       \/ HasPrefix(host, <<"1", "2", "7", ".">>)
       \/ HasPrefix(host, <<"1", "0", ".">>)
       \/ HasPrefix(host, <<"1", "9", "2", ".", "1", "6", "8", ".">>)
       \/ HasPrefix(host, <<"1", "7", "2", ".", "1", "6", ".">>)
      THEN NewError(<<"internal", "or", "private", "URLs", "are", "not", "allowed">>)
      ELSE Nil

(***************************************************************************)
(* Key generation.  SHA-256 is a fixed function the model does not         *)
(* compute: sha maps each input hashed so far to its 32-byte sum, and the  *)
(* sum of an input hashed for the first time is any of Digests.  The       *)
(* base64 URL encoding and the cut to 7 characters are computed.           *)
(***************************************************************************)
DigestOf(i) == [j \in 1..32 |-> (i * 97 + j * 31) % 256]

Digests == {DigestOf(i) : i \in 1..NumDigests}

encodeURL_Std ==
  << "A", "B", "C", "D", "E", "F", "G", "H", "I", "J", "K", "L", "M", "N", "O", "P",
     "Q", "R", "S", "T", "U", "V", "W", "X", "Y", "Z", "a", "b", "c", "d", "e", "f",
     "g", "h", "i", "j", "k", "l", "m", "n", "o", "p", "q", "r", "s", "t", "u", "v",
     "w", "x", "y", "z", "0", "1", "2", "3", "4", "5", "6", "7", "8", "9", "+", "/" >>

encodeURL ==
  << "A", "B", "C", "D", "E", "F", "G", "H", "I", "J", "K", "L", "M", "N", "O", "P",
     "Q", "R", "S", "T", "U", "V", "W", "X", "Y", "Z", "a", "b", "c", "d", "e", "f",
     "g", "h", "i", "j", "k", "l", "m", "n", "o", "p", "q", "r", "s", "t", "u", "v",
     "w", "x", "y", "z", "0", "1", "2", "3", "4", "5", "6", "7", "8", "9", "-", "_" >>

RECURSIVE EncodeToString(_)
EncodeToString(src) ==
  IF Len(src) = 0 THEN <<>>
  ELSE IF Len(src) = 1 THEN
    << encodeURL[(src[1] \div 4) + 1], encodeURL[((src[1] % 4) * 16) + 1], "=", "=" >>
  ELSE IF Len(src) = 2 THEN
    << encodeURL[(src[1] \div 4) + 1],
       encodeURL[((src[1] % 4) * 16 + src[2] \div 16) + 1],
       encodeURL[((src[2] % 16) * 4) + 1], "=" >>
  ELSE
    << encodeURL[(src[1] \div 4) + 1],
       encodeURL[((src[1] % 4) * 16 + src[2] \div 16) + 1],
       encodeURL[((src[2] % 16) * 4 + src[3] \div 64) + 1],
       encodeURL[(src[3] % 64) + 1] >> \o EncodeToString(SubSeq(src, 4, Len(src)))

\* The hasher of crypto/sha256 is the bytes written to it: none after New,
\* and Write appends.  generateShortURLKey makes its own on every call.
New == ""

Write(hasher, p) == hasher \o p

\* The bytes the hasher is fed: the long URL, then ":" and the salt in decimal.
HasherInput_RawAtZero(longUrl, salt) ==
  IF salt = 0 THEN longUrl.raw ELSE longUrl.raw \o ":" \o ToString(salt)

HasherInput(longUrl, salt) == Write(Write(New, longUrl.raw), ":" \o ToString(salt))

\* SHA-256 is a function of the bytes hashed, and that much is taken from
\* its definition, not from this program: h is the part of it used so far,
\* and Sha256With(h, input) is h extended, if need be, by the sum of one more
\* input, which may be any of Digests.
Sha256With(h, input) ==
  IF input \in DOMAIN h THEN {h} ELSE {(input :> d) @@ h : d \in Digests}

\* hasher.Sum(nil): the sum of the bytes written to the hasher.
Sum(h, hasher) == h[hasher]

generateShortURLKey_SaltZero(h, longUrl, salt) ==
  LET hashBytes == Sum(h, HasherInput(longUrl, 0))
      encoded == EncodeToString(hashBytes)
  IN IF Len(encoded) < 7 THEN <<"encoded string too short">> ELSE SubSeq(encoded, 1, 7)

generateShortURLKey(h, longUrl, salt) ==
  LET hashBytes == Sum(h, HasherInput(longUrl, salt))
      encoded == EncodeToString(hashBytes)
  IN IF Len(encoded) < 7 THEN <<"encoded string too short">> ELSE SubSeq(encoded, 1, 7)

\* url.JoinPath returns an error only when the base does not parse; the base
\* is a constant that does, so generateFullShortURL always returns the URL.
generateFullShortURL(shortKey) == BaseDomain \o Str(shortKey)


(***************************************************************************)
(* The urls table: rows in insertion order.  short_key is UNIQUE;          *)
(* long_url is not.  click_count takes the column default on insert:      *)
(* DEFAULT 0 in the schema that follows main.go.  sql/create_table.sql     *)
(* says DEFAULT 1, but lacks the comma before that column, so the          *)
(* statement is a syntax error and creates no table.                       *)
(***************************************************************************)
Row(shortKey, longURL) ==
  [short_key |-> shortKey, long_url |-> longURL, click_count |-> ClickCountDefault]

RowsWithLongURL(db, raw) == {i \in 1..Len(db) : db[i].long_url = raw}

RowsWithKey(db, key) == {i \in 1..Len(db) : db[i].short_key = key}

\* SELECT short_key FROM urls WHERE long_url = $1, scanned into shortKey: the
\* first row the query returns, and no ORDER BY says which one that is.
CheckDbForLongURL_NoDedup(db, longURL) ==
  { [shortKey |-> <<>>,
     err |-> Errorf(<<"error", "querying", "database", "for", "long", "URL:">>, f)] :
       f \in StoreFailures }
  \cup { [shortKey |-> <<>>, err |-> Nil] }

CheckDbForLongURL(db, longURL) ==
  { [shortKey |-> <<>>,
     err |-> Errorf(<<"error", "querying", "database", "for", "long", "URL:">>, f)] :
       f \in StoreFailures }
  \cup
  ( IF RowsWithLongURL(db, longURL.raw) = {}
      THEN { [shortKey |-> <<>>, err |-> Nil] }
      ELSE { [shortKey |-> db[i].short_key, err |-> Nil] :
               i \in RowsWithLongURL(db, longURL.raw) } )

\* INSERT INTO urls (short_key, long_url) VALUES ($1, $2)
saveURLToDatabase_NoUnique(db, shortKey, longURL) ==
  { [db |-> db, err |-> Errorf(<<"database", "insert", "failed:">>, f)] :
      f \in StoreFailures }
  \cup { [db |-> Append(db, Row(shortKey, longURL.raw)), err |-> Nil] }

saveURLToDatabase_Upsert(db, shortKey, longURL) ==
  { [db |-> db, err |-> Errorf(<<"database", "insert", "failed:">>, f)] :
      f \in StoreFailures }
  \cup
  ( IF RowsWithKey(db, shortKey) # {}
      THEN { [db |-> [i \in 1..Len(db) |->
                        IF db[i].short_key = shortKey
                          THEN [db[i] EXCEPT !.long_url = longURL.raw]
                          ELSE db[i]],
              err |-> Nil] }
      ELSE { [db |-> Append(db, Row(shortKey, longURL.raw)), err |-> Nil] } )

saveURLToDatabase_InsertThenFail(db, shortKey, longURL) ==
  { [db |-> db, err |-> Errorf(<<"database", "insert", "failed:">>, f)] :
      f \in StoreFailures }
  \cup
  ( IF RowsWithKey(db, shortKey) # {}
      THEN { [db |-> db, err |-> Errorf(<<"database", "insert", "failed:">>, UniqueViolation)] }
      ELSE { [db |-> Append(db, Row(shortKey, longURL.raw)),
              err |-> NewError(<<"database", "insert", "failed:", "%!w(<nil>)">>)] } )

saveURLToDatabase(db, shortKey, longURL) ==
  { [db |-> db, err |-> Errorf(<<"database", "insert", "failed:">>, f)] :
      f \in StoreFailures }
  \cup
  ( IF RowsWithKey(db, shortKey) # {}
      THEN { [db |-> db, err |-> Errorf(<<"database", "insert", "failed:">>, UniqueViolation)] }
      ELSE { [db |-> Append(db, Row(shortKey, longURL.raw)), err |-> Nil] } )

isCollisionError_Always(err) == ~err.nil

isCollisionError(err) ==
  IF err.nil THEN FALSE ELSE err.pqCode # "" /\ err.pqCode = "23505"

\* UPDATE urls SET click_count = click_count + 1 WHERE short_key = $1
\* RETURNING long_url, scanned into longURL: one statement.
UpdateReturning_SetOne(db, shortKey) ==
  { [db |-> db, longURL |-> "", err |-> f] : f \in StoreFailures }
  \cup
  ( IF RowsWithKey(db, shortKey) = {}
      THEN { [db |-> db, longURL |-> "", err |-> ErrNoRows] }
      ELSE { [db |-> [i \in 1..Len(db) |->
                        IF db[i].short_key = shortKey
                          THEN [db[i] EXCEPT !.click_count = 1]
                          ELSE db[i]],
              longURL |-> db[j].long_url,
              err |-> Nil] : j \in RowsWithKey(db, shortKey) } )

UpdateReturning_Delete(db, shortKey) ==
  { [db |-> db, longURL |-> "", err |-> f] : f \in StoreFailures }
  \cup
  ( IF RowsWithKey(db, shortKey) = {}
      THEN { [db |-> db, longURL |-> "", err |-> ErrNoRows] }
      ELSE { [db |-> SelectSeq(db, LAMBDA row : row.short_key # shortKey),
              longURL |-> db[j].long_url,
              err |-> Nil] : j \in RowsWithKey(db, shortKey) } )

UpdateReturning_NoWhere(db, shortKey) ==
  { [db |-> db, longURL |-> "", err |-> f] : f \in StoreFailures }
  \cup
  ( IF RowsWithKey(db, shortKey) = {}
      THEN { [db |-> db, longURL |-> "", err |-> ErrNoRows] }
      ELSE { [db |-> [i \in 1..Len(db) |-> [db[i] EXCEPT !.click_count = @ + 1]],
              longURL |-> db[j].long_url,
              err |-> Nil] : j \in RowsWithKey(db, shortKey) } )

UpdateReturning(db, shortKey) ==
  { [db |-> db, longURL |-> "", err |-> f] : f \in StoreFailures }
  \cup
  ( IF RowsWithKey(db, shortKey) = {}
      THEN { [db |-> db, longURL |-> "", err |-> ErrNoRows] }
      ELSE { [db |-> [i \in 1..Len(db) |->
                        IF db[i].short_key = shortKey
                          THEN [db[i] EXCEPT !.click_count = @ + 1]
                          ELSE db[i]],
              longURL |-> db[j].long_url,
              err |-> Nil] : j \in RowsWithKey(db, shortKey) } )

\* HandleRedirectRequest once the statement has run: (longURL, error).
RedirectResult_AllInternal(out) ==
  IF ~out.err.nil
    THEN [longURL |-> "", err |-> Errorf(<<"database", "query", "failed:">>, out.err)]
    ELSE [longURL |-> out.longURL, err |-> Nil]

RedirectResult(out) ==
  IF ~out.err.nil
    THEN IF out.err = ErrNoRows
           THEN [longURL |-> "", err |-> NewError(<<"short", "URL", "not", "found">>)]
           ELSE [longURL |-> "",
                 err |-> Errorf(<<"database", "query", "failed:">>, out.err)]
    ELSE [longURL |-> out.longURL, err |-> Nil]

\* HandleRedirectRequest before the statement: the length check.
CheckKeyLength_Any(shortKey) == Nil

CheckKeyLength(shortKey) ==
  IF Len(shortKey) # 7
    THEN NewError(<<"invalid", "short", "key", "length">>)
    ELSE Nil

(***************************************************************************)
(* The HTTP handlers of main: what they answer, as status and body.        *)
(***************************************************************************)
Response(status, body, val, err) ==
  [status |-> status, body |-> body, val |-> val, err |-> err]

NoResponse == Response(0, <<>>, "", Nil)

\* handleShorten, from the call of HandleShortURLRequest on.
ShortenResponse(shortURL, err) ==
  IF ~err.nil
    THEN Response(400, err.msg, "", err)
    ELSE Response(201, <<>>, shortURL, Nil)

ValidKeyChar_Any(char) == TRUE

ValidKeyChar(char) ==
  \/ (Ord(char) >= Ord("A") /\ Ord(char) <= Ord("Z"))
  \/ (Ord(char) >= Ord("a") /\ Ord(char) <= Ord("z"))
  \/ (Ord(char) >= Ord("0") /\ Ord(char) <= Ord("9"))
  \/ char = "-" \/ char = "_"

\* handleRedirect up to the call of HandleRedirectRequest: the response that
\* ends the request there, or NoResponse when the key goes on to the engine.
RedirectPrecheck(path) ==
  LET shortKey == SubSeq(path, 2, Len(path)) IN
  IF HasPrefix(path, <<"/", "a", "p", "i", "/">>)
    THEN Response(404, <<"404", "page", "not", "found">>, "", Nil)
  ELSE IF shortKey = <<>>
    THEN Response(404, <<"short", "key", "required">>, "", Nil)
  ELSE IF \E i \in 1..Len(shortKey) : ~ValidKeyChar(shortKey[i])
    THEN Response(400, <<"invalid", "short", "key", "format">>, "", Nil)
  ELSE NoResponse

\* handleRedirect after the call of HandleRedirectRequest.
RedirectResponse(longURL, err) ==
  IF ~err.nil
    THEN IF Contains(err.msg, <<"invalid", "short", "key", "length">>)
           THEN Response(400, err.msg, "", err)
         ELSE IF Contains(err.msg, <<"not", "found">>)
           THEN Response(404, err.msg, "", err)
         ELSE Response(500, <<"internal", "server", "error">>, "", err)
    ELSE Response(302, <<>>, longURL, Nil)

(***************************************************************************)
(* State.                                                                  *)
(*   store      the rows of the urls table                                 *)
(*   sha        SHA-256 on the inputs hashed so far                        *)
(*   req        the request in each slot: where it is (pc: idle, or in     *)
(*              HandleShortURLRequest before the dedup lookup ("lookup")   *)
(*              or before an insert attempt ("insert"), or in              *)
(*              HandleRedirectRequest before its statement ("update")),    *)
(*              its locals longUrl, shortKey and attempt, and whether the  *)
(*              context of the HTTP request is done (cancelled)            *)
(*   answered   the request answered last (pc "done") with its response    *)
(* History kept for the properties:                                        *)
(*   ops        (in a request) store statements the request has issued, by *)
(*              kind, how many inserts the store refused as duplicates,    *)
(*              and the error the driver gave for the last statement       *)
(*   prior      (in a request) short URLs already returned for its long    *)
(*              URL when it began                                          *)
(*   servedBefore  (in a request) successful resolutions of its key when   *)
(*              it began                                                   *)
(*   issued     <<long URL, short URL>> of every successful shorten        *)
(*   served     successful resolutions per short key                       *)
(*   overlapped long URLs for which two shorten requests ran at once       *)
(*   calls      requests begun                                             *)
(***************************************************************************)
VARIABLES store, sha, req, answered, issued, served, overlapped, calls

vars == <<store, sha, req, answered, issued, served, overlapped, calls>>

NoOps == [lookups |-> 0, inserts |-> 0, updates |-> 0, collisions |-> 0, lastErr |-> <<>>]

Idle ==
  [pc |-> "idle", op |-> "none", longUrl |-> NoURL, shortKey |-> <<>>, attempt |-> 0,
   result |-> NoResponse, ops |-> NoOps, prior |-> {}, servedBefore |-> 0,
   cancelled |-> FALSE]

\* The request r, answered with response.
Done(r, response) == [r EXCEPT !.pc = "done", !.result = response]

\* Request paths tried on the redirect route.
KeyUnassigned == <<"a", "b", "c", "1", "2", "3", "X">>
KeyShort == <<"a", "b", "c", "1", "2">>
KeyBadChar == <<"a", "b", "c", "!", "2", "3", "X">>
PathApi == <<"/", "a", "p", "i", "/", "x", "y", "z">>

GeneratedKeys == {SubSeq(EncodeToString(d), 1, 7) : d \in Digests}

RedirectPaths ==
  {<<"/">> \o k : k \in GeneratedKeys \cup {KeyUnassigned, KeyShort, KeyBadChar, <<>>}}
  \cup {PathApi}

Init ==
  /\ store = <<>>
  /\ sha = <<>>
  /\ req = [p \in Procs |-> Idle]
  /\ answered = Idle
  /\ issued = {}
  /\ served = [k \in GeneratedKeys |-> 0]
  /\ overlapped = {}
  /\ calls = 0

InShorten(q) == req[q].op = "shorten" /\ req[q].pc \in {"lookup", "insert"}

\* The slots are interchangeable, so a request goes to the first idle one.
Accepts(p) ==
  /\ req[p].pc = "idle"
  /\ calls < MaxCalls
  /\ \A q \in Procs : q < p => req[q].pc # "idle"

\* Contexts, as the statements see them: TRUE when the context is done (it
\* was cancelled or its deadline has passed).  HandleShortURLRequest gives
\* its statements context.Background(), which is never done; handleRedirect
\* gives HandleRedirectRequest the context of the HTTP request.
Background == FALSE

RequestContext(r) == r.cancelled

ContextCanceled == NewError(<<"context", "canceled">>)

\* QueryRowContext and ExecContext: with a context that is done the statement
\* is not run and the context's error is returned.
WithContext(ctx, outcomes, canceled) == IF ctx THEN {canceled} ELSE outcomes

\* Where HandleShortURLRequest goes after ValidateLongURL.
AfterValidation_Ignore(err) == "lookup"

AfterValidation(err) == IF ~err.nil THEN "done" ELSE "lookup"

\* HandleShortURLRequest: entry and validation.
ShortenBegin(p, u) ==
  /\ Accepts(p)
  /\ calls' = calls + 1
  /\ LET err == ValidateLongURL(u)
         next == AfterValidation(err)
         r == [Idle EXCEPT !.op = "shorten", !.longUrl = u,
                           !.prior = {i[2] : i \in {j \in issued : j[1] = u.raw}}]
     IN IF next = "done"
          THEN /\ answered' =
                    Done(r, ShortenResponse("", Errorf(<<"validation", "failed:">>, err)))
               /\ UNCHANGED <<req, overlapped>>
          ELSE /\ req' = [req EXCEPT ![p] = [r EXCEPT !.pc = next]]
               /\ overlapped' =
                    IF \E q \in Procs \ {p} : InShorten(q) /\ req[q].longUrl.raw = u.raw
                      THEN overlapped \cup {u.raw}
                      ELSE overlapped
               /\ UNCHANGED answered
  /\ UNCHANGED <<store, sha, issued, served>>

\* HandleShortURLRequest: the dedup lookup and the return of an existing key.
ShortenLookup(p) ==
  /\ req[p].pc = "lookup"
  /\ req[p].op = "shorten"
  /\ \E out \in WithContext(Background,
                            CheckDbForLongURL(store, req[p].longUrl),
                            [shortKey |-> <<>>,
                             err |-> Errorf(<<"error", "querying", "database", "for",
                                              "long", "URL:">>, ContextCanceled)]) :
       LET r == [req[p] EXCEPT
                   !.ops.lookups = IF out.err.root = ContextCanceled.msg THEN @ ELSE @ + 1,
                   !.ops.lastErr = out.err.root] IN
       IF ~out.err.nil
         THEN /\ answered' =
                   Done(r, ShortenResponse("",
                             Errorf(<<"database", "lookup", "failed:">>, out.err)))
              /\ req' = [req EXCEPT ![p] = Idle]
              /\ UNCHANGED issued
       ELSE IF out.shortKey # <<>>
         THEN /\ answered' =
                   Done([r EXCEPT !.shortKey = out.shortKey],
                        ShortenResponse(generateFullShortURL(out.shortKey), Nil))
              /\ req' = [req EXCEPT ![p] = Idle]
              /\ issued' = issued \cup
                   {<<r.longUrl.raw, generateFullShortURL(out.shortKey)>>}
       ELSE /\ req' = [req EXCEPT ![p] = [r EXCEPT !.pc = "insert"]]
            /\ UNCHANGED <<answered, issued>>
  /\ UNCHANGED <<store, sha, served, overlapped, calls>>

\* HandleShortURLRequest: one pass of the retry loop, and what follows the loop.
ShortenInsert(p) ==
  /\ req[p].pc = "insert"
  /\ req[p].op = "shorten"
  /\ req[p].attempt < MaxRetries
  /\ \E h \in Sha256With(sha, HasherInput(req[p].longUrl, req[p].attempt)) :
       LET key == generateShortURLKey(h, req[p].longUrl, req[p].attempt) IN
       \E out \in WithContext(Background,
                              saveURLToDatabase(store, key, req[p].longUrl),
                              [db |-> store,
                               err |-> Errorf(<<"database", "insert", "failed:">>,
                                              ContextCanceled)]) :
         LET r == [req[p] EXCEPT
                     !.shortKey = key,
                     !.ops.inserts = IF out.err.root = ContextCanceled.msg THEN @ ELSE @ + 1,
                     !.ops.collisions =
                        IF out.err.root = UniqueViolation.msg THEN @ + 1 ELSE @,
                     !.ops.lastErr = out.err.root]
         IN
         /\ sha' = h
         /\ store' = out.db
         /\ IF out.err.nil
              THEN /\ answered' = Done(r, ShortenResponse(generateFullShortURL(key), Nil))
                   /\ req' = [req EXCEPT ![p] = Idle]
                   /\ issued' = issued \cup {<<r.longUrl.raw, generateFullShortURL(key)>>}
            ELSE IF isCollisionError(out.err)
              THEN IF r.attempt + 1 < MaxRetries
                     THEN /\ req' = [req EXCEPT ![p] = [r EXCEPT !.attempt = @ + 1]]
                          /\ UNCHANGED <<answered, issued>>
                     ELSE /\ answered' =
                               Done([r EXCEPT !.attempt = @ + 1],
                                    ShortenResponse("",
                                      Errorf(<<"failed", "to", "save", "url", "after",
                                               ToString(MaxRetries), "attempts:">>,
                                             out.err)))
                          /\ req' = [req EXCEPT ![p] = Idle]
                          /\ UNCHANGED issued
            ELSE /\ answered' =
                      Done(r, ShortenResponse("",
                                Errorf(<<"failed", "to", "save", "url:">>, out.err)))
                 /\ req' = [req EXCEPT ![p] = Idle]
                 /\ UNCHANGED issued
  /\ UNCHANGED <<served, overlapped, calls>>

\* handleRedirect up to the statement of HandleRedirectRequest.
RedirectBegin(p, path) ==
  /\ Accepts(p)
  /\ calls' = calls + 1
  /\ LET early == RedirectPrecheck(path)
         key == SubSeq(path, 2, Len(path))
         err == CheckKeyLength(key)
         r == [Idle EXCEPT !.op = "resolve", !.shortKey = key,
                           !.servedBefore = IF key \in DOMAIN served THEN served[key] ELSE 0]
     IN IF early # NoResponse
          THEN answered' = Done(r, early) /\ UNCHANGED req
        ELSE IF ~err.nil
          THEN answered' = Done(r, RedirectResponse("", err)) /\ UNCHANGED req
        ELSE req' = [req EXCEPT ![p] = [r EXCEPT !.pc = "update"]] /\ UNCHANGED answered
  /\ UNCHANGED <<store, sha, issued, served, overlapped>>

\* HandleRedirectRequest: the increment-and-fetch statement, and the answer.
\* The context is that of the HTTP request; here it is as it is when the
\* statement is sent (RedirectUpdateCancelled has it end during the call).
RedirectUpdate(p) ==
  /\ req[p].pc = "update"
  /\ req[p].op = "resolve"
  /\ \E out \in WithContext(RequestContext(req[p]),
                            UpdateReturning(store, req[p].shortKey),
                            [db |-> store, longURL |-> "", err |-> ContextCanceled]) :
       LET res == RedirectResult(out)
           r == [req[p] EXCEPT
                   !.ops.updates = IF out.err.root = ContextCanceled.msg THEN @ ELSE @ + 1,
                   !.ops.lastErr = out.err.root]
       IN
       /\ store' = out.db
       /\ answered' = Done(r, RedirectResponse(res.longURL, res.err))
       /\ served' = IF res.err.nil /\ r.shortKey \in DOMAIN served
                      THEN [served EXCEPT ![r.shortKey] = @ + 1]
                      ELSE served
  /\ req' = [req EXCEPT ![p] = Idle]
  /\ UNCHANGED <<sha, issued, overlapped, calls>>

\* HandleRedirectRequest when the context of the HTTP request ends while the
\* statement is under way: the statement was sent and has had whatever
\* effect it has (the UPDATE is its own transaction), and Scan returns the
\* error of the context instead of the row.
RedirectUpdateCancelled(p) ==
  /\ req[p].pc = "update"
  /\ req[p].op = "resolve"
  /\ ~RequestContext(req[p])
  /\ \E sent \in UpdateReturning(store, req[p].shortKey) :
       LET out == [db |-> sent.db, longURL |-> "", err |-> ContextCanceled]
           res == RedirectResult(out)
           r == [req[p] EXCEPT !.cancelled = TRUE,
                               !.ops.updates = @ + 1,
                               !.ops.lastErr = out.err.root]
       IN
       /\ store' = out.db
       /\ answered' = Done(r, RedirectResponse(res.longURL, res.err))
  /\ req' = [req EXCEPT ![p] = Idle]
  /\ UNCHANGED <<sha, issued, served, overlapped, calls>>

Next ==
  \/ \E p \in Procs, u \in URLs : ShortenBegin(p, u)
  \/ \E p \in Procs : ShortenLookup(p)
  \/ \E p \in Procs : ShortenInsert(p)
  \/ \E p \in Procs, path \in RedirectPaths : RedirectBegin(p, path)
  \/ \E p \in Procs : RedirectUpdate(p)

Spec == Init /\ [][Next]_vars

(***************************************************************************)
(* Properties.  Requests is every request of the state: those in the slots *)
(* and the one answered last.                                              *)
(***************************************************************************)
Requests == {req[p] : p \in Procs} \cup {answered}

ShortenOk(r) == r.op = "shorten" /\ r.pc = "done" /\ r.result.err.nil

ResolveOk(r) == r.op = "resolve" /\ r.pc = "done" /\ r.result.status = 302

\* C1, as claimed: a shorten that returns a short URL returns the very short
\* URL that every shorten of the same long URL returned before it began.
C1_SecondShortenIdentical ==
  ShortenOk(answered) => \A s \in answered.prior : s = answered.result.val

\* C1 away from the race: a shorten that returns a short URL returns the short
\* URL that every earlier shorten of the same long URL returned, when no two
\* shorten requests for that long URL have run at the same time.  The lookup
\* of CheckDbForLongURL expects at most one row, which only then is so.
C1_SecondShortenIdenticalUnlessOverlapped ==
  (ShortenOk(answered) /\ answered.longUrl.raw \notin overlapped)
    => \A s \in answered.prior : s = answered.result.val

C1_Witness ==
  /\ ShortenOk(answered)
  /\ answered.longUrl.raw \notin overlapped
  /\ answered.prior # {}
  /\ answered.ops.lookups = 1
  /\ Len(store) = 2

\* C2: the click_count of every mapping is its initial value plus the number
\* of resolutions of its key that have returned the long URL, whatever the
\* interleaving of the requests.
C2_ClickCountCountsResolutions ==
  \A i \in 1..Len(store) :
    /\ store[i].short_key \in DOMAIN served
    /\ store[i].click_count = ClickCountDefault + served[store[i].short_key]

\* Two resolutions of one key that ran at the same time have both returned:
\* the second to return began before the first had.
C2_Witness ==
  /\ ResolveOk(answered)
  /\ answered.servedBefore = 0
  /\ served[answered.shortKey] = 2
  /\ \E i \in 1..Len(store) :
       /\ store[i].short_key = answered.shortKey
       /\ store[i].click_count = ClickCountDefault + 2

\* C3, as claimed: the store never holds two mappings with the same long URL.
C3_OneMappingPerLongURL ==
  \A u \in URLs : Cardinality(RowsWithLongURL(store, u.raw)) <= 1

\* C3 away from the race: the store holds at most one mapping for a long URL
\* as long as no two shorten requests for that long URL have run at the same
\* time.
C3_OneMappingPerLongURLUnlessOverlapped ==
  \A u \in URLs :
    u.raw \notin overlapped => Cardinality(RowsWithLongURL(store, u.raw)) <= 1

C3_Witness ==
  /\ ShortenOk(answered)
  /\ answered.ops.lookups = 1 /\ answered.ops.inserts = 0
  /\ overlapped = {}
  /\ Cardinality(RowsWithLongURL(store, answered.longUrl.raw)) = 1
  /\ calls = 3

\* C4: no two mappings of the store have the same short key.
C4_ShortKeyUnique ==
  \A i, j \in 1..Len(store) :
    store[i].short_key = store[j].short_key => i = j

\* Two shorten requests under way at once whose first keys coincide: one has
\* inserted, the other has been refused and has inserted under its next key.
C4_Witness ==
  /\ ShortenOk(answered)
  /\ answered.ops.collisions >= 1
  /\ Len(store) = 2
  /\ calls = 2
  /\ store[1].short_key = generateShortURLKey(sha, answered.longUrl, 0)

\* C5: a resolution that returns a long URL returns the long URL of every
\* shorten that returned its key's short URL, and shorten never returns one
\* short URL for two different long URLs.
C5_RoundTrip ==
  /\ ResolveOk(answered) =>
       \A i \in issued :
         i[2] = generateFullShortURL(answered.shortKey) => answered.result.val = i[1]
  /\ \A i, j \in issued : i[1] # j[1] => i[2] # j[2]

C5_Witness ==
  /\ ResolveOk(answered)
  /\ <<answered.result.val, generateFullShortURL(answered.shortKey)>> \in issued
  /\ \E i \in issued : i[1] # answered.result.val
  /\ generateShortURLKey(sha, UrlA, 0) = generateShortURLKey(sha, UrlB, 0)

ValidationError(u) == Errorf(<<"validation", "failed:">>, ValidateLongURL(u))

\* C6: a shorten of a long URL the validator rejects is answered at once with
\* the validation error; it issues no lookup and no insert, and the step that
\* takes the request leaves the store as it was.
C6_RejectedNeverTouchesStore ==
  /\ [](\A r \in Requests :
          (r.op = "shorten" /\ ~ValidateLongURL(r.longUrl).nil)
            => /\ r.pc = "done"
               /\ r.ops = NoOps
               /\ r.result = ShortenResponse("", ValidationError(r.longUrl)))
  /\ [][( /\ calls' = calls + 1
           /\ answered'.op = "shorten"
           /\ ~ValidateLongURL(answered'.longUrl).nil
           /\ req' = req )
          => store' = store /\ sha' = sha]_vars

C6_Witness ==
  /\ answered.op = "shorten" /\ answered.pc = "done"
  /\ answered.longUrl = UrlLocal
  /\ Len(store) >= 1

\* The alphabet and the length the specification gives for a short key.
KeyAlphabet ==
  { "A", "B", "C", "D", "E", "F", "G", "H", "I", "J", "K", "L", "M",
    "N", "O", "P", "Q", "R", "S", "T", "U", "V", "W", "X", "Y", "Z",
    "a", "b", "c", "d", "e", "f", "g", "h", "i", "j", "k", "l", "m",
    "n", "o", "p", "q", "r", "s", "t", "u", "v", "w", "x", "y", "z",
    "0", "1", "2", "3", "4", "5", "6", "7", "8", "9", "_", "-" }

WellFormedKey(key) == Len(key) = 7 /\ \A i \in 1..Len(key) : key[i] \in KeyAlphabet

InvalidKeyBodies ==
  { <<"short", "key", "required">>,
    <<"invalid", "short", "key", "format">>,
    <<"invalid", "short", "key", "length">> }

NotFoundResponse(r) == r.status = 404 /\ r.body = <<"short", "URL", "not", "found">>

\* C7: a resolve of a key that is not 7 characters long, or that has a
\* character outside [A-Za-z0-9_-], issues no store statement and is answered
\* with an invalid-key error (a path under /api/ is no key: it is answered
\* with the router's 404, also without a store statement).
C7_MalformedKeyNeverReachesStore ==
  \A r \in Requests :
    (r.op = "resolve" /\ ~WellFormedKey(r.shortKey))
      => /\ r.pc = "done"
         /\ r.ops = NoOps
         /\ r.result.status \in {400, 404}
         /\ ~NotFoundResponse(r.result)
         /\ ~HasPrefix(r.shortKey, <<"a", "p", "i", "/">>)
              => r.result.body \in InvalidKeyBodies

C7_Witness ==
  /\ answered.op = "resolve" /\ answered.pc = "done"
  /\ answered.shortKey = KeyBadChar
  /\ Len(store) >= 1

\* C8: the statement of a resolve of a well-formed key that has no mapping
\* leaves the store as it was; the resolve is answered not-found when the
\* statement finds no row, and with an internal error, which is not the
\* not-found answer, when the store fails or the request is given up.
C8_UnassignedKeyNotFound ==
  [][\A p \in Procs :
       ( /\ req[p].pc = "update" /\ req'[p].pc = "idle"
         /\ WellFormedKey(req[p].shortKey)
         /\ RowsWithKey(store, req[p].shortKey) = {} )
       => /\ store' = store
          /\ served' = served
          /\ answered'.shortKey = req[p].shortKey
          /\ answered'.ops.lastErr = ErrNoRows.msg => NotFoundResponse(answered'.result)
          /\ answered'.ops.lastErr # ErrNoRows.msg
               => /\ answered'.ops.lastErr \in
                       {f.msg : f \in StoreFailures} \cup {ContextCanceled.msg}
                  /\ answered'.result.status = 500
                  /\ ~NotFoundResponse(answered'.result)]_vars

C8_Witness ==
  /\ answered.op = "resolve" /\ answered.pc = "done"
  /\ answered.shortKey = KeyUnassigned
  /\ answered.ops.updates = 1
  /\ NotFoundResponse(answered.result)
  /\ Len(store) >= 1

RetriesExhausted(r) ==
  /\ ~r.err.nil
  /\ HasPrefix(r.err.msg, <<"failed", "to", "save", "url", "after", "5", "attempts:">>)

\* C9: shorten never makes more than 5 insert attempts, and when the store
\* has refused 5 of them as duplicates of a short key the request has made
\* exactly 5, is over, and is answered with the retries-exhausted error that
\* names 5 attempts.
C9_FiveCollisionsExhaust ==
  \A r \in Requests :
    /\ r.ops.inserts <= 5
    /\ r.ops.collisions = 5
         => /\ r.pc = "done"
            /\ r.ops.inserts = 5
            /\ RetriesExhausted(r.result)
            /\ r.result.val = ""
            /\ r.result.err.pqCode = "23505"

C9_Witness == answered.op = "shorten" /\ answered.ops.collisions = 5

\* C10: when an insert attempt of shorten fails with a store failure that is
\* no uniqueness violation, the request is over: it is answered with that
\* failure, wrapped once as a failed save, which is not the retries-exhausted
\* error, and no insert attempt follows.
C10_OtherInsertFailureAborts ==
  \A r \in Requests :
    ( /\ r.op = "shorten"
      /\ r.ops.inserts >= 1
      /\ r.ops.lastErr \in {f.msg : f \in StoreFailures} )
    => /\ r.pc = "done"
       /\ \E f \in StoreFailures :
            r.result = ShortenResponse("",
              Errorf(<<"failed", "to", "save", "url:", "database", "insert", "failed:">>, f))
       /\ ~RetriesExhausted(r.result)
       /\ r.ops.inserts = r.ops.collisions + 1

C10_Witness ==
  /\ answered.op = "shorten" /\ answered.pc = "done"
  /\ answered.ops.collisions >= 1
  /\ answered.ops.lastErr \in {f.msg : f \in StoreFailures}

\* C11: no step changes the short_key or the long_url of a mapping the store
\* holds, and an insert attempt of shorten under a key the store already
\* holds leaves the store as it was and does not succeed: it is refused as a
\* duplicate of the key (or the store fails).
C11_MappingImmutable ==
  [][ /\ \A i \in 1..Len(store) :
           /\ i <= Len(store')
           /\ store'[i].short_key = store[i].short_key
           /\ store'[i].long_url = store[i].long_url
      /\ \A p \in Procs :
           (req[p].pc = "insert" /\ req'[p].ops # req[p].ops) =>
             LET r == IF req'[p].pc = "idle" THEN answered' ELSE req'[p] IN
             RowsWithKey(store, r.shortKey) # {} =>
               /\ store' = store
               /\ ~ShortenOk(r)
               /\ r.ops.lastErr \in
                    {UniqueViolation.msg} \cup {f.msg : f \in StoreFailures} ]_vars

\* An insert of one long URL has been refused under the key of a mapping of
\* another long URL, which has been resolved and still holds its long URL.
C11_Witness ==
  \E r \in Requests : \E i \in 1..Len(store) :
    /\ r.op = "shorten"
    /\ r.ops.lastErr = UniqueViolation.msg
    /\ store[i].short_key = r.shortKey
    /\ store[i].long_url # r.longUrl.raw
    /\ store[i].click_count > ClickCountDefault

\* C12: a mapping has click_count 0 when shorten has just created it, and
\* its click_count is always the number of resolutions of its key that have
\* returned its long URL: n after n resolutions.
C12_ClickCountStartsAtZero ==
  /\ [][Len(store') > Len(store) => store'[Len(store')].click_count = 0]_vars
  /\ [](\A i \in 1..Len(store) :
          /\ store[i].short_key \in DOMAIN served
          /\ store[i].click_count = served[store[i].short_key])

\* C12, first half alone: every mapping is created with click_count 0.
C12_CreatedWithZero ==
  [][Len(store') > Len(store) => store'[Len(store')].click_count = 0]_vars

(***************************************************************************)
(* ValidateLongURL on many hosts: one shorten request whose long URL is    *)
(* scheme://a.b.0.1/ for a first octet a of FirstOctets and every second   *)
(* octet b, or has one of the loopback names (::1 written [::1], as a URL  *)
(* has it), run to its end.                                                *)
(***************************************************************************)
RECURSIVE Itoa(_)
Itoa(n) == IF n < 10 THEN <<Chr(48 + n)>> ELSE Itoa(n \div 10) \o <<Chr(48 + (n % 10))>>

FirstOctets == {8, 10, 127, 172, 192}

DottedQuad(a, b) == Itoa(a) \o <<".">> \o Itoa(b) \o <<".", "0", ".", "1">>

\* URL.Hostname of net/url: the host text without a valid port (cut at its
\* last colon) and without the square brackets of an IPv6 literal.
LastIndexByte(s, c) ==
  IF \E i \in 1..Len(s) : s[i] = c
    THEN CHOOSE i \in 1..Len(s) : s[i] = c /\ \A j \in (i + 1)..Len(s) : s[j] # c
    ELSE 0

validOptionalPort(port) ==
  \/ port = <<>>
  \/ /\ port[1] = ":"
     /\ \A i \in 2..Len(port) : Ord(port[i]) >= Ord("0") /\ Ord(port[i]) <= Ord("9")

splitHostPort(hostPort) ==
  LET colon == LastIndexByte(hostPort, ":")
      host == IF colon # 0 /\ validOptionalPort(SubSeq(hostPort, colon, Len(hostPort)))
                THEN SubSeq(hostPort, 1, colon - 1)
                ELSE hostPort
  IN IF Len(host) >= 2 /\ host[1] = "[" /\ host[Len(host)] = "]"
       THEN SubSeq(host, 2, Len(host) - 1)
       ELSE host

Hostname(host) == splitHostPort(host)

\* The URL scheme://host/ as url.Parse reads it.
HostURL(scheme, host) ==
  LET raw == scheme \o "://" \o Str(host) \o "/" IN
  ParsedURL(raw, Len(raw), TRUE, scheme, Hostname(host))

\* The host text of a URL to hostname: an IPv6 literal goes in brackets.
HostText(hostname) ==
  IF \E i \in 1..Len(hostname) : hostname[i] = ":"
    THEN <<"[">> \o hostname \o <<"]">>
    ELSE hostname

LoopbackNames ==
  { <<"l", "o", "c", "a", "l", "h", "o", "s", "t">>,
    <<"L", "O", "C", "A", "L", "H", "O", "S", "T">>,
    <<"1", "2", "7", ".", "0", ".", "0", ".", "1">>,
    <<":", ":", "1">> }

ValidatorURLs ==
  { HostURL(s, DottedQuad(a, b)) : s \in {"http", "https"}, a \in FirstOctets, b \in 0..255 }
  \cup { HostURL(s, HostText(h)) : s \in {"http", "https"}, h \in LoopbackNames }
  \cup { UrlA, UrlFtp }

NextValidate ==
  \/ \E u \in ValidatorURLs : calls = 0 /\ ShortenBegin(1, u)
  \/ ShortenLookup(1)
  \/ ShortenInsert(1)

SpecValidate == Init /\ [][NextValidate]_vars

\* The hosts the specification has the validator reject: the loopback names
\* and the addresses of 127.0.0.0/8, 10.0.0.0/8, 192.168.0.0/16, 172.16.0.0/12.
LoopbackOrPrivate(u) ==
  \/ u.Hostname \in LoopbackNames
  \/ \E a \in FirstOctets, b \in 0..255 :
       /\ u.Hostname = DottedQuad(a, b)
       /\ \/ a = 127
          \/ a = 10
          \/ a = 192 /\ b = 168
          \/ a = 172 /\ b >= 16 /\ b <= 31

\* C13: a shorten of an http or https URL whose host is a loopback name or a
\* private address is answered with a validation error without a store
\* statement, and the store holds no mapping to such a host.
C13_PrivateHostsRejected ==
  /\ \A r \in Requests :
       (r.op = "shorten" /\ r.longUrl.Scheme \in {"http", "https"}
          /\ LoopbackOrPrivate(r.longUrl))
       => /\ r.pc = "done"
          /\ r.ops = NoOps
          /\ ~ValidateLongURL(r.longUrl).nil
  /\ \A i \in 1..Len(store) :
       \A u \in ValidatorURLs : store[i].long_url = u.raw => ~LoopbackOrPrivate(u)

\* C15: no step takes a short key out of the store, and a resolve of a key
\* that an earlier resolve has returned a long URL for is never answered
\* not-found.
C15_MappingNeverRemoved ==
  /\ [](\A r \in Requests :
          (r.op = "resolve" /\ r.pc = "done" /\ r.servedBefore > 0)
            => ~NotFoundResponse(r.result) /\ r.result.status \in {302, 500})
  /\ [][\A i \in 1..Len(store) : RowsWithKey(store', store[i].short_key) # {}]_vars

C15_Witness ==
  /\ ResolveOk(answered)
  /\ answered.servedBefore > 0
  /\ answered.ops.updates = 1
  /\ \E i \in 1..Len(store) :
       /\ store[i].short_key = answered.shortKey
       /\ store[i].click_count = ClickCountDefault + 2

\* The first 7 characters of the encoded sum of the long URL hashed with salt n.
KeyAtSalt(longUrl, n) == SubSeq(EncodeToString(sha[HasherInput(longUrl, n)]), 1, 7)

\* C16: the insert attempts of a shorten use the salts 0, 1, 2, ... in turn:
\* the attempt after c refused ones has hashed the long URL with salt c and
\* inserts that key; there are at most 5 attempts; a shorten that succeeds by
\* an insert returns the base domain joined with the key of that insert.
C16_SaltCountsCollisions ==
  \A r \in Requests :
    r.op = "shorten" =>
      /\ r.ops.inserts <= 5
      /\ r.pc = "insert" => r.attempt = r.ops.inserts /\ r.ops.collisions = r.ops.inserts
      /\ r.ops.inserts > 0 =>
           /\ r.ops.collisions \in {r.ops.inserts - 1, r.ops.inserts}
           /\ HasherInput(r.longUrl, r.ops.inserts - 1) \in DOMAIN sha
           /\ r.shortKey = KeyAtSalt(r.longUrl, r.ops.inserts - 1)
      /\ (ShortenOk(r) /\ r.ops.inserts > 0) =>
           /\ r.ops.collisions = r.ops.inserts - 1
           /\ r.result.val = BaseDomain \o Str(KeyAtSalt(r.longUrl, r.ops.collisions))

\* A shorten has succeeded on salt 2 after two refused inserts.
C16_Witness ==
  /\ ShortenOk(answered)
  /\ answered.ops.collisions = 2
  /\ answered.attempt = 2
  /\ answered.ops.inserts = 3

\* C17: when the store has refused the last insert of a shorten as a
\* duplicate of its short key, the mapping stored under that key has another
\* long URL than the request's.
C17_ViolationIsGenuineCollision ==
  \A r \in Requests :
    (r.op = "shorten" /\ r.ops.lastErr = UniqueViolation.msg)
      => \A i \in RowsWithKey(store, r.shortKey) : store[i].long_url # r.longUrl.raw

\* C18, as claimed: what is hashed for salt 0 is the long URL alone, as in
\* the generator without salt; a request that has made its first insert
\* attempt has had the text of its long URL hashed, and its key is cut from
\* that sum.
C18_SaltZeroHashesRawURL ==
  \A r \in Requests :
    (r.op = "shorten" /\ r.ops.inserts = 1)
      => /\ HasherInput(r.longUrl, 0) = r.longUrl.raw
         /\ r.longUrl.raw \in DOMAIN sha

\* C18, amended: for every salt, 0 included, what is hashed is the long URL
\* followed by ":" and the salt in decimal; the long URL alone is never hashed.
C18_EverySaltIsSuffixed ==
  \A r \in Requests :
    (r.op = "shorten" /\ r.ops.inserts > 0)
      => LET input == r.longUrl.raw \o ":" \o ToString(r.ops.inserts - 1) IN
         /\ input \in DOMAIN sha
         /\ r.shortKey = SubSeq(EncodeToString(sha[input]), 1, 7)
         /\ r.longUrl.raw \notin DOMAIN sha

\* Keys have been generated at salt 0 and at salt 1.
C18_Witness ==
  /\ ShortenOk(answered)
  /\ answered.ops.inserts = 2
  /\ (answered.longUrl.raw \o ":0") \in DOMAIN sha
  /\ (answered.longUrl.raw \o ":1") \in DOMAIN sha

\* C19: the dedup lookup of a shorten whose long URL has a mapping ends the
\* request without an insert, with the store and the sums as they were; the
\* short URL returned is the base domain joined with the short_key of a
\* stored mapping of that long URL (unless the lookup itself failed).
C19_DedupHitReturnsStoredKey ==
  [][\A p \in Procs :
       ( /\ req[p].pc = "lookup" /\ req'[p].pc # "lookup"
         /\ RowsWithLongURL(store, req[p].longUrl.raw) # {} )
       => /\ store' = store
          /\ sha' = sha
          /\ req'[p].pc = "idle"
          /\ answered'.longUrl = req[p].longUrl
          /\ answered'.ops.inserts = 0
          /\ answered'.ops.lastErr = <<>> =>
               /\ ShortenOk(answered')
               /\ \E i \in RowsWithLongURL(store, req[p].longUrl.raw) :
                    /\ answered'.shortKey = store[i].short_key
                    /\ answered'.result.val = BaseDomain \o Str(store[i].short_key)
          /\ answered'.ops.lastErr # <<>> =>
               /\ answered'.ops.lastErr \in {f.msg : f \in StoreFailures}
               /\ ~ShortenOk(answered') ]_vars

\* A dedup hit on a mapping that was created on salt 1: the key returned is
\* not the key generated for the long URL at salt 0.
C19_Witness ==
  /\ ShortenOk(answered)
  /\ answered.ops.lookups = 1
  /\ answered.ops.inserts = 0
  /\ HasherInput(answered.longUrl, 0) \in DOMAIN sha
  /\ answered.shortKey # generateShortURLKey(sha, answered.longUrl, 0)
  /\ Cardinality(RowsWithLongURL(store, answered.longUrl.raw)) = 1

(***************************************************************************)
(* Cancellation: the caller of a request under way gives it up, and the    *)
(* context of its HTTP request is done from then on: between two calls     *)
(* (Cancel) or during the statement of a resolve (RedirectUpdateCancelled).*)
(***************************************************************************)
Cancel(p) ==
  /\ req[p].pc \in {"lookup", "insert", "update"}
  /\ ~req[p].cancelled
  /\ req' = [req EXCEPT ![p].cancelled = TRUE]
  /\ UNCHANGED <<store, sha, answered, issued, served, overlapped, calls>>

NextCancel ==
  \/ Next
  \/ \E p \in Procs : Cancel(p)
  \/ \E p \in Procs : RedirectUpdateCancelled(p)

SpecCancel == Init /\ [][NextCancel]_vars

\* C20: a request whose caller has cancelled issues no further store
\* statement (no lookup, no insert, no update) and changes the store no more.
C20_CancelledIssuesNoStatement ==
  [][\A p \in Procs :
       (req[p].cancelled /\ req'[p] # req[p]) =>
         LET r == IF req'[p].pc = "idle" THEN answered' ELSE req'[p] IN
         /\ r.ops.lookups = req[p].ops.lookups
         /\ r.ops.inserts = req[p].ops.inserts
         /\ r.ops.updates = req[p].ops.updates
         /\ store' = store ]_vars

\* C20 on resolve alone, whose statement runs under the context of the HTTP
\* request: a cancelled resolve issues no statement and changes no mapping.
C20_CancelledResolveIssuesNoStatement ==
  [][\A p \in Procs :
       (req[p].cancelled /\ req[p].op = "resolve" /\ req'[p] # req[p]) =>
         /\ answered'.ops = [req[p].ops EXCEPT !.lastErr = ContextCanceled.msg]
         /\ answered'.result.status = 500
         /\ store' = store /\ served' = served ]_vars

\* C21: a shorten that is answered with an error has added no mapping: the
\* step that answers it with the error leaves the store as it was, and every
\* step of a shorten that changes the store is its last and answers it with
\* a short URL.
C21_ErrorAddsNoMapping ==
  [][ /\ ( /\ calls' = calls + 1
           /\ answered'.op = "shorten"
           /\ req' = req ) => store' = store
      /\ \A p \in Procs :
           ( /\ req[p].op = "shorten"
             /\ req'[p].ops # req[p].ops \/ req'[p].pc # req[p].pc ) =>
             /\ (req'[p].pc = "idle" /\ ~ShortenOk(answered')) =>
                  /\ answered'.longUrl = req[p].longUrl
                  /\ store' = store
             /\ store' # store =>
                  /\ req'[p].pc = "idle"
                  /\ ShortenOk(answered')
                  /\ Len(store') = Len(store) + 1
                  /\ store'[Len(store')].long_url = req[p].longUrl.raw ]_vars

\* A shorten has ended in a store failure of its second insert attempt, its
\* first having been refused as a duplicate; the store holds what it held.
C21_Witness ==
  /\ answered.op = "shorten" /\ answered.pc = "done"
  /\ ~answered.result.err.nil
  /\ answered.ops.inserts = 2
  /\ answered.ops.collisions = 1
  /\ Len(store) = 1
  /\ store[1].long_url # answered.longUrl.raw

\* C22: the click_count of a mapping never decreases, and a step changes it
\* only by adding one, as the statement of a resolve of that mapping's key
\* which is answered with the long URL: no step of a shorten, no resolve that
\* is answered with an error and no resolve of another key changes it.
C22_ClickCountFrame ==
  [][\A i \in 1..Len(store) :
       /\ i <= Len(store')
       /\ store'[i].click_count >= store[i].click_count
       /\ store'[i].click_count # store[i].click_count =>
            /\ store'[i].click_count = store[i].click_count + 1
            /\ ResolveOk(answered')
            /\ answered'.shortKey = store[i].short_key
            /\ \E p \in Procs :
                 /\ req[p].op = "resolve" /\ req[p].pc = "update"
                 /\ req[p].shortKey = store[i].short_key
                 /\ req'[p].pc = "idle" ]_vars

\* A key has been resolved while the store held a mapping under another key,
\* whose click_count is what it was at creation.
C22_Witness ==
  /\ ResolveOk(answered)
  /\ Len(store) = 2
  /\ \E i, j \in 1..Len(store) :
       /\ store[i].short_key = answered.shortKey
       /\ store[i].click_count = ClickCountDefault + 1
       /\ store[j].short_key # answered.shortKey
       /\ store[j].click_count = ClickCountDefault

\* C23: every short key in the store is 7 characters of [A-Za-z0-9_-] (the
\* encoding has no other character to give), passes the character check of
\* handleRedirect and the length check of HandleRedirectRequest, and a
\* resolve of it is never answered as an invalid key: its statement is run
\* (unless the client has gone away, which ends the request with a 500).
C23_StoredKeysWellFormed ==
  /\ \A k \in 1..Len(encodeURL) : encodeURL[k] \in KeyAlphabet /\ ValidKeyChar(encodeURL[k])
  /\ \A i \in 1..Len(store) :
       /\ WellFormedKey(store[i].short_key)
       /\ RedirectPrecheck(<<"/">> \o store[i].short_key) = NoResponse
       /\ CheckKeyLength(store[i].short_key).nil
  /\ \A r \in Requests :
       (r.op = "resolve" /\ r.pc = "done" /\ RowsWithKey(store, r.shortKey) # {})
         => /\ ~r.cancelled => r.ops.updates = 1
            /\ r.result.status \in {302, 500}
            /\ r.result.body \notin InvalidKeyBodies

\* A stored key with the characters "-" of the URL-safe alphabet has been
\* resolved.
C23_Witness ==
  /\ ResolveOk(answered)
  /\ \E k \in 1..Len(answered.shortKey) : answered.shortKey[k] = "-"
  /\ RowsWithKey(store, answered.shortKey) # {}

=============================================================================
